---- MODULE Spec2Model ----
(***************************************************************************)
(* State-machine model of the hubcloud extractor.                          *)
(*                                                                         *)
(*   compute tier  src/railway_service.py : lazy browser engine, cache     *)
(*                 file, extraction pipeline, /health, /wake, /api/hubcloud*)
(*   edge proxy    src/api/proxy.py (src/api/api_proxy.py is the same code *)
(*                 with RENDER_URL for RAILWAY_URL)                        *)
(*                                                                         *)
(* Both tiers run on a single-threaded asyncio event loop: code between    *)
(* two awaits runs atomically, so one action of the model is the           *)
(* completion of one await followed by the synchronous code up to the next *)
(* await (or to the handler's return).                                     *)
(***************************************************************************)
EXTENDS Integers, Sequences, FiniteSets, TLC

\* ------------------------------------------------------------------ bounds
\* /api/hubcloud calls over one run of the compute tier
MaxCalls == 2
\* background tasks created with asyncio.create_task over one run
MaxTasks == 2
\* /api/hubcloud calls over one run where every endpoint is exercised
MaxCallsWide == 1

Req == 1..MaxCalls
Task == 1..MaxTasks

\* Python's None, kept a string so that it compares with the other strings
None == "None"

\* ------------------------------------------------------ engine (lazy state)
VARIABLES
    started,      \* _playwright_state["started"]
    playwright,   \* _playwright_state["playwright"]: 0 is None, 1 a runtime
    browser,      \* _playwright_state["browser"]: 0 is None, n the n-th browser
    nBrowsers,    \* browsers launched so far (p.chromium.launch returned)
    task          \* background ensure_playwright_started() tasks

engineVars == <<started, playwright, browser, nBrowsers>>

\* --------------------------------------------------------------- edge proxy
VARIABLES
    px,           \* the proxy_get request: where it stands and its locals
    presp         \* the answer proxy_get gave its client

proxyVars == <<px, presp>>

\* -------------------------------------------------------- button classifier
VARIABLES
    button        \* one a.btn anchor of a page and the labels it was given

\* A background task: where its coroutine stands, the runtime it holds in the
\* local p (0 for none), and (history) whether started was already true when it was created.
NoTask == [pc |-> "none", p |-> 0, bornStarted |-> FALSE]

NewTask == [pc |-> "check", p |-> 0, bornStarted |-> started]

FreeTasks == {t \in Task : task[t].pc = "none"}

\* asyncio.create_task(ensure_playwright_started()): the coroutine is queued
\* and runs in a later turn of the event loop.
CreateTask(tasks, t) == [tasks EXCEPT ![t] = NewTask]

\* ensure_playwright_started, line 188: the flag check.  "rt" is the await of
\* async_playwright().start() that follows when the flag is false.
MutEnsureCheckAlways(flag) == "rt"
EnsureCheck(flag) == IF flag THEN "done" ELSE "rt"

\* ensure_playwright_started, lines 191-195: what the completed launch stores.
\* rt is the caller's local p, the runtime it started itself.
MutStoreEngineFlagFirst(rt) ==
    /\ started' = TRUE
    /\ UNCHANGED <<playwright, browser, nBrowsers>>
StoreEngine(rt) ==
    /\ nBrowsers' = nBrowsers + 1
    /\ playwright' = rt
    /\ browser' = nBrowsers + 1
    /\ started' = TRUE

\* GET /health, lines 341-346
MutHealthAnswerReady(flag) == [status |-> 200, body |-> "ready"]
HealthAnswer(flag) ==
    IF flag THEN [status |-> 200, body |-> "ready"]
            ELSE [status |-> 503, body |-> "sleeping"]

\* ------------------------------------------------------------- cache file
VARIABLES
    file,         \* links_metadata.json: [state, data]
    req,          \* the /api/hubcloud requests in flight, one record per slot
    calls,        \* /api/hubcloud calls made so far
    last,         \* (history) the answer the compute tier gave last
    written       \* (history) the save_cache calls made so far, in order

\* ---------------------------------------------------------------- strings
\* A URL is a sequence of characters; " " is the only whitespace in the model.
U == <<"u">>
V == <<"v">>

Texts == { <<>>, <<" ">>, U, <<"u", " ">>, V }

\* The url query parameter: absent (<<>>, Python's None) or one text.
UrlParams == { <<>> } \cup { <<s>> : s \in Texts }

RECURSIVE LStrip(_)
LStrip(s) == IF s # <<>> /\ Head(s) = " " THEN LStrip(Tail(s)) ELSE s

RECURSIVE RStrip(_)
RStrip(s) ==
    IF s # <<>> /\ s[Len(s)] = " " THEN RStrip(SubSeq(s, 1, Len(s) - 1)) ELSE s

\* str.strip(), line 281
MutStripNothing(s) == s
Strip(s) == RStrip(LStrip(s))

\* Python truthiness of an Optional[str]
Truthy(x) == x # None /\ x # ""

\* ----------------------------------------------------- what the web answers
\* head_request, lines 107-116: the header fields, None after an exception.
HeadFailed == [content_type |-> None, content_length |-> None]

HeadOk == [content_type |-> "video/mp4", content_length |-> "1000"]

\* A non-2xx answer is no exception: its headers are returned.
HeadOutcomes ==
    { HeadFailed, HeadOk, [content_type |-> "text/html", content_length |-> None] }

\* extract_metadata, lines 119-130: raises on a network error, a timeout and a
\* non-2xx status (raise_for_status); else the texts selected.
MetaRaised == [raised |-> TRUE, title |-> "", file_size |-> "", file_type |-> ""]

MetaOk == [raised |-> FALSE, title |-> "Movie", file_size |-> "1.5 GB", file_type |-> "mkv"]

MetaOutcomes ==
    { MetaRaised, MetaOk,
      [raised |-> FALSE, title |-> "", file_size |-> "", file_type |-> ""] }

\* A classified link is [label, href]; a dict of links is the sequence of its
\* items in insertion order.
FslLink == [label |-> "FSL", href |-> "https://fsl.example/f"]
TelegramLink == [label |-> "Telegram", href |-> "https://gamerxyt.com/t"]
TenGbpsHref == "https://10g.example/p"

\* extract_links_requests, lines 133-167: {} after an exception or a non-2xx
\* status, else the classified buttons.
LinkOutcomes == { <<>>, <<FslLink>>, <<TelegramLink>> }

\* extract_buttons_with_browser, lines 204-252, from new_page on.
\*   "no_page"     new_page raises
\*   "nav_error"   goto or content raises
\*   "no_buttons"  the selector wait of line 209 times out
\*   "10gbps"      a 10Gbps button whose second page shows a#vd
\*   "10gbps_nav"  a 10Gbps button whose second page fails to load
\*   "fsl"         an FSL Server button
\*   "telegram"    a Telegram button
PageOutcomes ==
    { "no_page", "nav_error", "no_buttons", "fsl", "10gbps", "10gbps_nav", "telegram" }

\* lines 205-236, 225-236 and 259-275: try ... finally: page.close(); the
\* close runs however the body ended ("returned" or "raised")
MutFinallyOnReturn(body, ended) == IF ended = "raised" THEN body ELSE Append(body, "close")
Finally(body, ended) == Append(body, "close")

\* lines 224-236: the second page of a 10Gbps button
SecondPage(out) ==
    IF out \in {"10gbps", "10gbps_nav"}
    THEN <<"new_page">> \o Finally(<<"goto">>, IF out = "10gbps_nav" THEN "raised" ELSE "returned")
    ELSE <<>>

\* lines 204-252: the page operations of the visit, in order
ButtonsVisit(out) ==
    IF out = "no_page" THEN <<>>
    ELSE <<"new_page">>
           \o Finally(<<"goto">> \o SecondPage(out),
                      IF out \in {"nav_error", "10gbps_nav"} THEN "raised" ELSE "returned")

Count(ops, op) == Cardinality({ i \in DOMAIN ops : ops[i] = op })

\* the pages the visit opens (new_page calls that return) and closes
PagesOpened(out) == Count(ButtonsVisit(out), "new_page")

PagesClosed(out) == Count(ButtonsVisit(out), "close")

\* lines 201-253: the links the visit returns; <<>> also when it raised
PageLinks(out) ==
    CASE out = "fsl" -> <<FslLink>>
      [] out = "10gbps" -> <<[label |-> "10Gbps", href |-> "https://10g.example/vd"]>>
      [] out = "telegram" -> <<TelegramLink>>
      [] OTHER -> <<>>

\* get_gamerxyt_requests / get_gamerxyt_with_browser: the gamerxyt URL found,
\* or None (an exception, or no match).
GxDecodable == "https://gamerxyt.com/?r=aHR0cHM6Ly90Lm1lL2M"
GxOutcomes == { None, GxDecodable }

\* get_gamerxyt_with_browser, lines 257-276: how the visit went when it gave
\* gamerxyt ("no_page": new_page raised, caught at line 315), and its page
\* operations
GxVisits(gamerxyt) ==
    IF gamerxyt = None THEN { "no_page", "nav_error", "no_match" } ELSE { "found" }

GxVisit(out) ==
    IF out = "no_page" THEN <<>>
    ELSE <<"new_page">>
           \o Finally(<<"goto">>, IF out = "nav_error" THEN "raised" ELSE "returned")

\* line 312: the browser is tried for what the HTTP resolution did not find
MutUseBrowserUnstarted(gamerxyt, flag) == ~Truthy(gamerxyt)
UseBrowser(gamerxyt, flag) == ~Truthy(gamerxyt) /\ flag

\* line 310: the indirection markers
NeedsResolving(href) == href \in { TelegramLink.href }

\* normalize_telegram, lines 90-103: the base64 token decoded; the href itself
\* when there is no token or decoding raises; None for a falsy href.
NormalizeTelegram(href) ==
    CASE href = None -> None
      [] href = GxDecodable -> "https://t.me/c"
      [] OTHER -> href

\* parse_size_from_text, lines 67-87, followed by str() of line 329: the byte
\* count as text, or None.
ParseSizeFromText(text) ==
    CASE text = "1.5 GB" -> "1610612736"
      [] OTHER -> None

\* process_single_url, lines 321-334
Assemble(url, head, meta, links, resolved) ==
    LET size_bytes == IF meta.file_size # "" THEN ParseSizeFromText(meta.file_size)
                      ELSE None
        content_type == IF Truthy(head.content_type) THEN head.content_type
                        ELSE meta.file_type
        content_length == IF Truthy(head.content_length) THEN head.content_length
                          ELSE IF size_bytes # None THEN size_bytes
                          ELSE None
    IN  [ meta |-> [ url |-> url, title |-> meta.title,
                     content_type |-> content_type,
                     content_length |-> content_length ],
          links |-> links, resolved |-> resolved ]

\* -------------------------------------------------------------- cache store
\* The file holds a JSON object ("ok", data the mapping), anything else
\* ("corrupt"), or does not exist ("missing").
EmptyMap == [k \in {} |-> 0]

OldEntry ==
    Assemble(U, HeadFailed,
             [raised |-> FALSE, title |-> "Old", file_size |-> "", file_type |-> ""],
             <<FslLink>>, <<>>)

InitFiles ==
    { [state |-> "missing", data |-> EmptyMap],
      [state |-> "ok", data |-> (U :> OldEntry)] }

\* load_cache, lines 49-56
MutLoadCacheEmpty(f) == EmptyMap
LoadCache(f) == IF f.state = "ok" THEN f.data ELSE EmptyMap

\* save_cache, lines 59-64.  how: "ok"; "unwritable" (open raises, the file
\* stays as it was); "partial" (open truncated the file and the dump raised).
SaveOutcomes == { "ok", "unwritable", "partial" }

MutSaveCacheMerge(f, cache, how) ==
    CASE how = "ok" ->
            [state |-> "ok",
             data |-> [k \in DOMAIN cache \cup DOMAIN f.data |->
                          IF k \in DOMAIN f.data /\ f.state = "ok" /\ k \notin DOMAIN cache
                          THEN f.data[k] ELSE cache[k]]]
      [] how = "unwritable" -> f
      [] how = "partial" -> [state |-> "corrupt", data |-> EmptyMap]
SaveCache(f, cache, how) ==
    CASE how = "ok" -> [state |-> "ok", data |-> cache]
      [] how = "unwritable" -> f
      [] how = "partial" -> [state |-> "corrupt", data |-> EmptyMap]

\* lines 61-64: the except clause of save_cache; no failure of the write
\* leaves save_cache
MutSaveRaisedOnFailure(how) == how # "ok"
SaveRaised(how) == FALSE

\* line 335: cache[url] = entry
MutPutAlone(cache, url, entry) == (url :> entry)
Put(cache, url, entry) ==
    [k \in DOMAIN cache \cup {url} |-> IF k = url THEN entry ELSE cache[k]]

\* ------------------------------------------------- /api/hubcloud requests
\* (history) the answer given last: the endpoint, the status and the body;
\* for /api/hubcloud also the call's cache key and force flag, the entry it
\* returned (<<>> when it returned none), how its save went ("none" when it
\* did not save), whether it issued network requests, whether no other
\* request was in flight while it ran, the pages it left open, and whether
\* an engine start of its browser fallback raised.
NoCall ==
    [ endpoint |-> "none", status |-> 0, body |-> "none", url |-> <<>>,
      force |-> FALSE, entry |-> <<>>, saved |-> "none", net |-> FALSE,
      alone |-> FALSE, pages |-> 0, startFailed |-> FALSE ]

Answered(endpoint, answer) ==
    [NoCall EXCEPT !.endpoint = endpoint, !.status = answer.status, !.body = answer.body]

\* One request: pc is the await it is suspended at; url .. p are the locals of
\* process_single_url and of ensure_playwright_started when it is inside it;
\* pages counts the browser pages it has opened and not closed.  History:
\* net, alone and startFailed as above.
IdleReq ==
    [ pc |-> "idle", url |-> <<>>, force |-> FALSE, cache |-> EmptyMap,
      head |-> HeadFailed, links |-> <<>>, idx |-> 0, resolved |-> <<>>,
      title |-> "", file_size |-> "", file_type |-> "",
      p |-> 0, pages |-> 0, net |-> FALSE, alone |-> TRUE, startFailed |-> FALSE ]

InFlight(q) == q.pc # "idle"

Summary(answer, ctx, entry, how) ==
    [ endpoint |-> "hubcloud", status |-> answer.status, body |-> answer.body, url |-> ctx.url,
      force |-> ctx.force, entry |-> entry, saved |-> how, net |-> ctx.net,
      alone |-> ctx.alone, pages |-> ctx.pages, startFailed |-> ctx.startFailed ]

\* line 286: the cache answers
MutCacheHitForced(force_refresh, url, cache) == url \in DOMAIN cache
CacheHit(force_refresh, url, cache) == ~force_refresh /\ url \in DOMAIN cache

\* lines 307-310: the next link at or after position i whose href has an
\* indirection marker; 0 when there is none left.
RECURSIVE NextToResolve(_, _)
NextToResolve(links, i) ==
    IF i > Len(links) THEN 0
    ELSE IF Truthy(links[i].href) /\ NeedsResolving(links[i].href) THEN i
    ELSE NextToResolve(links, i + 1)

\* lines 306-319, from position i of the loop to its next await: the
\* get_gamerxyt_requests thread of line 311, or past the loop to the assembly.
Resolve(ctx, i) ==
    LET j == NextToResolve(ctx.links, i)
    IN  IF j = 0 THEN [ctx EXCEPT !.pc = "finish", !.idx = 0]
        ELSE [ctx EXCEPT !.pc = "res_req", !.idx = j]

\* lines 317-319: decode what was resolved, keep it when truthy, go on.
Resolved(ctx, gamerxyt) ==
    LET hubcloud == NormalizeTelegram(gamerxyt)
        kept == IF Truthy(hubcloud) THEN Append(ctx.resolved, hubcloud) ELSE ctx.resolved
    IN  Resolve([ctx EXCEPT !.resolved = kept], ctx.idx + 1)

\* lines 296-303 once extract_buttons_with_browser has returned pl_links, or
\* raised (pl_links = <<>>): a non-empty result replaces links.
AfterFallback(ctx, pl_links) ==
    Resolve([ctx EXCEPT !.links = IF pl_links # <<>> THEN pl_links ELSE @, !.p = 0], 1)

\* lines 202-204 as called from line 298: the flag check of
\* ensure_playwright_started, then either its first await or new_page.
Fallback(ctx, flag) ==
    IF EnsureCheck(flag) = "done" THEN [ctx EXCEPT !.pc = "fb_page"]
    ELSE [ctx EXCEPT !.pc = "ens_rt"]

\* lines 293-296: what follows the gather.  A probe that raised makes the
\* gather raise.
AfterProbes(ctx, meta, flag) ==
    IF meta.raised THEN [ctx EXCEPT !.pc = "raise"]
    ELSE LET got == [ctx EXCEPT !.title = meta.title, !.file_size = meta.file_size,
                                !.file_type = meta.file_type]
         IN  IF got.links = <<>> THEN Fallback(got, flag) ELSE Resolve(got, 1)

\* create_task picks the next unused task
LeastFree == CHOOSE t \in FreeTasks : \A o \in FreeTasks : t <= o

\* api_hubcloud, lines 363-370: the except branch
ErrorAnswer(flag) ==
    IF ~flag THEN [status |-> 202, body |-> "waking"]
    ELSE [status |-> 500, body |-> "error"]

\* The outcome of a step of request r that has run to ctx.  At "finish":
\* process_single_url, lines 321-337, and api_hubcloud, line 362; at "raise":
\* api_hubcloud, lines 363-370; else the request stays suspended.
Settle(r, base, ctx, how) ==
    CASE ctx.pc = "finish" ->
            LET meta == [title |-> ctx.title, file_size |-> ctx.file_size,
                         file_type |-> ctx.file_type]
                entry == Assemble(ctx.url, ctx.head, meta, ctx.links, ctx.resolved)
            IN  /\ file' = SaveCache(file, Put(ctx.cache, ctx.url, entry), how)
                /\ written' = Append(written, [url |-> ctx.url, entry |-> entry,
                                                force |-> ctx.force, how |-> how,
                                                alone |-> ctx.alone])
                /\ req' = [base EXCEPT ![r] = IdleReq]
                /\ IF SaveRaised(how)
                   THEN /\ ~started => FreeTasks # {}
                        /\ task' = IF ~started THEN CreateTask(task, LeastFree) ELSE task
                        /\ last' = Summary(ErrorAnswer(started), ctx, <<>>, how)
                   ELSE /\ last' = Summary([status |-> 200, body |-> "entry"], ctx,
                                           <<entry>>, how)
                        /\ UNCHANGED task
      [] ctx.pc = "raise" ->
            /\ ~started => FreeTasks # {}
            /\ task' = IF ~started THEN CreateTask(task, LeastFree) ELSE task
            /\ req' = [base EXCEPT ![r] = IdleReq]
            /\ last' = Summary(ErrorAnswer(started), ctx, <<>>, "none")
            /\ UNCHANGED <<file, written>>
      [] OTHER ->
            /\ req' = [base EXCEPT ![r] = ctx]
            /\ UNCHANGED <<file, last, written, task>>

\* save_cache runs only in a step that reaches the assembly
Hows(ctx, W) == IF ctx.pc = "finish" THEN W.saves ELSE {"ok"}

\* The calls are numbered in the order they arrive.
FreeSlot(r) == r = calls + 1

\* api_hubcloud, lines 357-361, into process_single_url, lines 281-293, up to
\* the gather: the three probe threads are issued here.  A missing or empty
\* url is answered 400 before process_single_url is called.
ApiHubcloud(r, url, force) ==
    /\ UNCHANGED <<proxyVars, button>>
    /\ FreeSlot(r)
    /\ calls' = calls + 1
    /\ UNCHANGED engineVars
    /\ IF url = <<>> \/ url[1] = <<>>
       THEN /\ last' = Answered("hubcloud", [status |-> 400, body |-> "error"])
            /\ UNCHANGED <<file, req, task, written>>
       ELSE LET quiet == \A o \in Req : ~InFlight(req[o])
                base == [o \in Req |-> IF InFlight(req[o])
                                       THEN [req[o] EXCEPT !.alone = FALSE] ELSE req[o]]
                key == Strip(url[1])
                begun == [IdleReq EXCEPT !.url = key, !.force = force, !.alone = quiet]
                cache == LoadCache(file)
            IN  IF key = <<>>
                THEN Settle(r, base, [begun EXCEPT !.pc = "raise"], "ok")
                ELSE IF CacheHit(force, key, cache)
                THEN /\ last' = Summary([status |-> 200, body |-> "entry"], begun,
                                      <<cache[key]>>, "none")
                     /\ req' = base
                     /\ UNCHANGED <<file, task, written>>
                ELSE Settle(r, base, [begun EXCEPT !.pc = "probes", !.cache = cache,
                                                   !.net = TRUE], "ok")

\* line 293: asyncio.gather returns the three results, or raises what
\* extract_metadata raised.
Gather(r, W) ==
    /\ UNCHANGED <<proxyVars, button>>
    /\ req[r].pc = "probes"
    /\ UNCHANGED <<engineVars, calls>>
    /\ \E head \in W.heads, meta \in W.metas, links \in W.links :
         LET ctx == AfterProbes([req[r] EXCEPT !.head = head, !.links = links], meta, started)
         IN  \E how \in Hows(ctx, W) : Settle(r, req, ctx, how)

\* ensure_playwright_started as awaited at line 202, line 191: the runtime has
\* started, or the start raised (caught at line 302).
EnsRuntime(r, W) ==
    /\ UNCHANGED <<proxyVars, button>>
    /\ req[r].pc = "ens_rt"
    /\ UNCHANGED calls
    /\ \/ /\ UNCHANGED engineVars
          /\ Settle(r, req, [req[r] EXCEPT !.pc = "ens_launch", !.p = 1], "ok")
       \/ /\ UNCHANGED engineVars
          /\ LET ctx == AfterFallback([req[r] EXCEPT !.startFailed = TRUE], <<>>)
             IN  \E how \in Hows(ctx, W) : Settle(r, req, ctx, how)

\* lines 192-195, then lines 203-204: the browser is launched and stored and
\* new_page is awaited; or the launch raised (caught at line 302).
EnsLaunch(r, W) ==
    /\ UNCHANGED <<proxyVars, button>>
    /\ req[r].pc = "ens_launch"
    /\ UNCHANGED calls
    /\ \/ /\ StoreEngine(req[r].p)
          /\ Settle(r, req, [req[r] EXCEPT !.pc = "fb_page", !.p = 0], "ok")
       \/ /\ UNCHANGED engineVars
          /\ LET ctx == AfterFallback([req[r] EXCEPT !.startFailed = TRUE], <<>>)
             IN  \E how \in Hows(ctx, W) : Settle(r, req, ctx, how)

\* extract_buttons_with_browser, lines 204-253: the visit of the page, from
\* new_page to the close of every page it opened; then lines 299-319 up to
\* the next await.
FbPage(r, W) ==
    /\ UNCHANGED <<proxyVars, button>>
    /\ req[r].pc = "fb_page"
    /\ UNCHANGED <<engineVars, calls>>
    /\ \E out \in W.pages :
         LET seen == [req[r] EXCEPT !.pages = @ + PagesOpened(out) - PagesClosed(out)]
             ctx == AfterFallback(seen, PageLinks(out))
         IN  \E how \in Hows(ctx, W) : Settle(r, req, ctx, how)

\* lines 311-314: the thread of get_gamerxyt_requests has returned; the
\* browser is tried only when it found nothing and the engine is started.
ResReq(r, W) ==
    /\ UNCHANGED <<proxyVars, button>>
    /\ req[r].pc = "res_req"
    /\ UNCHANGED <<engineVars, calls>>
    /\ \E gamerxyt \in W.gxs :
         LET ctx == IF UseBrowser(gamerxyt, started)
                    THEN [req[r] EXCEPT !.pc = "res_page"]
                    ELSE Resolved(req[r], gamerxyt)
         IN  \E how \in Hows(ctx, W) : Settle(r, req, ctx, how)

\* get_gamerxyt_with_browser, lines 257-276: the visit, from new_page to the
\* close of the page; None when new_page or the navigation raised.
ResPage(r, W) ==
    /\ UNCHANGED <<proxyVars, button>>
    /\ req[r].pc = "res_page"
    /\ UNCHANGED <<engineVars, calls>>
    /\ \E gamerxyt \in W.gxs : \E out \in GxVisits(gamerxyt) :
         LET seen == [req[r] EXCEPT !.pages = @ + Count(GxVisit(out), "new_page")
                                                 - Count(GxVisit(out), "close")]
             ctx == Resolved(seen, gamerxyt)
         IN  \E how \in Hows(ctx, W) : Settle(r, req, ctx, how)

\* ------------------------------------------------------- background tasks
\* ensure_playwright_started as a task, line 188
TaskCheck(t) ==
    /\ UNCHANGED <<proxyVars, button>>
    /\ task[t].pc = "check"
    /\ task' = [task EXCEPT ![t].pc = EnsureCheck(started)]
    /\ UNCHANGED <<engineVars, file, req, calls, last, written>>

\* line 191: the runtime has started, or the start raised and the task ends
TaskRuntime(t) ==
    /\ UNCHANGED <<proxyVars, button>>
    /\ task[t].pc = "rt"
    /\ UNCHANGED <<file, req, calls, last, written>>
    /\ UNCHANGED engineVars
    /\ \/ task' = [task EXCEPT ![t].pc = "launch", ![t].p = 1]
       \/ task' = [task EXCEPT ![t].pc = "failed"]

\* lines 192-196: the browser is launched and stored, or the launch raised
TaskLaunch(t) ==
    /\ UNCHANGED <<proxyVars, button>>
    /\ task[t].pc = "launch"
    /\ UNCHANGED <<file, req, calls, last, written>>
    /\ \/ /\ StoreEngine(task[t].p)
          /\ task' = [task EXCEPT ![t].pc = "done", ![t].p = 0]
       \/ /\ task' = [task EXCEPT ![t].pc = "failed", ![t].p = 0]
          /\ UNCHANGED engineVars

\* ------------------------------------------------------- /health and /wake
\* health, lines 341-346
Health ==
    /\ UNCHANGED <<proxyVars, button>>
    /\ last' = Answered("health", HealthAnswer(started))
    /\ UNCHANGED <<engineVars, task, file, req, calls, written>>

\* wake_background, lines 349-353
WakeAnswer == [status |-> 202, body |-> "waking"]

WakeBackground ==
    /\ UNCHANGED <<proxyVars, button>>
    /\ FreeTasks # {}
    /\ task' = CreateTask(task, LeastFree)
    /\ last' = Answered("wake", WakeAnswer)
    /\ UNCHANGED <<engineVars, file, req, calls, written>>

\* ------------------------------------------------------------ compute tier
computeVars ==
    <<started, playwright, browser, nBrowsers, task, file, req, calls, last, written>>

ComputeInit ==
    /\ started = FALSE
    /\ playwright = 0
    /\ browser = 0
    /\ nBrowsers = 0
    /\ task = [t \in Task |-> NoTask]
    /\ file \in InitFiles
    /\ req = [r \in Req |-> IdleReq]
    /\ calls = 0
    /\ last = NoCall
    /\ written = <<>>

\* The requests of the compute tier in a world W: the url parameters clients
\* send and what the web, the browser and the disk answer.
Requests(W) ==
    \/ \E r \in 1..W.calls, url \in W.urls, force \in BOOLEAN : ApiHubcloud(r, url, force)
    \/ \E r \in Req : Gather(r, W)
    \/ \E r \in Req : EnsRuntime(r, W)
    \/ \E r \in Req : EnsLaunch(r, W)
    \/ \E r \in Req : FbPage(r, W)

Resolution(W) ==
    \/ \E r \in Req : ResReq(r, W)
    \/ \E r \in Req : ResPage(r, W)

Tasks ==
    \/ \E t \in Task : TaskCheck(t)
    \/ \E t \in Task : TaskRuntime(t)
    \/ \E t \in Task : TaskLaunch(t)

\* The engine's life: every endpoint, clients that send any url parameter, a
\* page whose buttons need the browser or the redirect resolution, a disk
\* that works.
EngineWorld ==
    [ calls |-> MaxCallsWide,
      urls |-> { <<>>, << <<>> >>, << <<" ">> >>, <<U>> },
      heads |-> { HeadFailed },
      metas |-> { MetaRaised, MetaOk },
      links |-> { <<>>, <<TelegramLink>> },
      pages |-> { "no_page", "10gbps" },
      gxs |-> GxOutcomes,
      saves |-> { "ok" } ]

EngineNext ==
    \/ Requests(EngineWorld)
    \/ Resolution(EngineWorld)
    \/ Tasks
    \/ Health
    \/ WakeBackground

\* The cache's life: extraction requests for two keys, every probe failing or
\* not, a disk that fails or not.
CacheWorld ==
    [ calls |-> MaxCalls,
      urls |-> { <<U>>, << <<"u", " ">> >>, <<V>> },
      heads |-> { HeadOk },
      metas |-> { MetaRaised, MetaOk },
      links |-> { <<>>, <<FslLink>> },
      pages |-> { "nav_error", "fsl" },
      gxs |-> { None },
      saves |-> SaveOutcomes ]

CacheNext ==
    \/ Requests(CacheWorld)

\* One extraction in full: every outcome of every probe, of the browser visit
\* and of the redirect resolution, with an engine that a wake may have started.
ProbeWorld ==
    [ calls |-> MaxCallsWide,
      urls |-> { <<U>> },
      heads |-> HeadOutcomes,
      metas |-> MetaOutcomes,
      links |-> LinkOutcomes,
      pages |-> PageOutcomes,
      gxs |-> GxOutcomes,
      saves |-> { "ok" } ]

ProbeNext ==
    \/ Requests(ProbeWorld)
    \/ Resolution(ProbeWorld)
    \/ Tasks
    \/ WakeBackground

\* The browser paths, with every outcome of a visit.
PageWorld ==
    [ calls |-> MaxCalls,
      urls |-> { <<U>> },
      heads |-> { HeadOk },
      metas |-> { MetaOk },
      links |-> { <<>>, <<TelegramLink>> },
      pages |-> PageOutcomes,
      gxs |-> GxOutcomes,
      saves |-> { "ok" } ]

PageNext ==
    \/ Requests(PageWorld)
    \/ Resolution(PageWorld)

\* =============================================================== edge proxy
\* src/api/proxy.py.  One proxy_get request is followed from its arrival to
\* its answer; the compute tier is whatever answers the proxy's HTTP calls.
SUGGESTED_RETRY_AFTER == 30
MAX_BLOCK_WAIT == 20
PollInterval == 2

\* What httpx raises for a call that gets no answer.
HttpxErrors == { "ConnectError", "ReadTimeout", "ConnectTimeout", "WriteTimeout", "PoolTimeout" }

\* An HTTP answer of the compute tier (or of the platform in front of it):
\* status, body, and whether the body is JSON.
ApiAnswers ==
    { [status |-> 200, body |-> "entry", json |-> TRUE],
      [status |-> 202, body |-> "waking", json |-> TRUE],
      [status |-> 500, body |-> "detail", json |-> TRUE],
      [status |-> 503, body |-> "unavailable page", json |-> FALSE] }

HealthAnswers ==
    { [status |-> 200, body |-> "ready", json |-> TRUE],
      [status |-> 503, body |-> "sleeping", json |-> TRUE] }

NoAnswer == [status |-> 0, body |-> "none", json |-> FALSE]

\* The outcome of one HTTP call: an answer, or an exception of httpx.
Outcomes(answers) ==
    { [raised |-> "no", answer |-> a] : a \in answers }
      \cup { [raised |-> e, answer |-> NoAnswer] : e \in HttpxErrors }

\* The request: pc is the await it is suspended at; force, wait and
\* total_waited are the locals of proxy_get.  History: first (the outcome of the fast
\* forward), wakes, polls, reissues (calls made so far), healthyAt (the poll
\* that first answered 200, 0 for none), reissue1 (the outcome of the first
\* re-issued forward).
NoOutcome == [raised |-> "none", answer |-> NoAnswer]

IdleProxy ==
    [ pc |-> "idle", force |-> FALSE, wait |-> FALSE, total_waited |-> 0, first |-> NoOutcome,
      wakes |-> 0, polls |-> 0, reissues |-> 0, healthyAt |-> 0, reissue1 |-> NoOutcome ]

\* An answer to the client: how it was made ("relay", "waking", or "error"
\* for an HTTPException or an unhandled exception), status, body, and the
\* Retry-After header (0 when absent).
NoPresp == [kind |-> "none", status |-> 0, body |-> "none", retry_after |-> 0]

\* lines 71-74 and 76-79
Waking ==
    [kind |-> "waking", status |-> 202, body |-> "waking", retry_after |-> SUGGESTED_RETRY_AFTER]

\* lines 49 and 68: JSONResponse(status_code=..., content=r.json())
MutRelayAsWaking(status, answer) == Waking
Relay(status, answer) ==
    [kind |-> "relay", status |-> status, body |-> answer.body, retry_after |-> 0]

\* an HTTPException, or an exception leaving proxy_get (the framework's 500)
Failed(status) == [kind |-> "error", status |-> status, body |-> "detail", retry_after |-> 0]

\* line 45: the exceptions of the fast forward that are caught
CaughtByFastForward == { "ConnectError", "ReadTimeout" }

\* line 61: the loop condition
MutKeepWaitingInclusive(total_waited) == total_waited <= MAX_BLOCK_WAIT
KeepWaiting(total_waited) == total_waited < MAX_BLOCK_WAIT

Answer(q, a) ==
    /\ px' = [q EXCEPT !.pc = "done"]
    /\ presp' = a

Suspend(q, pc) ==
    /\ px' = [q EXCEPT !.pc = pc]
    /\ UNCHANGED presp

\* lines 61-62 and 71-74: back at the head of the loop
Loop(q) == IF KeepWaiting(q.total_waited) THEN Suspend(q, "sleep") ELSE Answer(q, Waking)

\* lines 31-44: the checks, then the fast forward is awaited
ProxyGet(configured, url, force, wait) ==
    /\ px.pc = "idle"
    /\ UNCHANGED <<computeVars, button>>
    /\ IF ~configured THEN Answer(px, Failed(500))
       ELSE IF url = <<>> \/ url[1] = <<>> THEN Answer(px, Failed(400))
       ELSE Suspend([px EXCEPT !.force = force, !.wait = wait], "fwd")

\* lines 44-53: the fast forward has ended; a 200 is relayed, an exception
\* that is not caught leaves proxy_get, anything else goes on to post_wake
FwdDone ==
    /\ px.pc = "fwd"
    /\ UNCHANGED <<computeVars, button>>
    /\ \E out \in Outcomes(ApiAnswers) :
         LET q == [px EXCEPT !.first = out]
         IN  IF out.raised # "no"
             THEN IF out.raised \in CaughtByFastForward
                  THEN Suspend([q EXCEPT !.wakes = @ + 1], "wake")
                  ELSE Answer(q, Failed(500))
             ELSE IF out.answer.status = 200
             THEN IF out.answer.json THEN Answer(q, Relay(200, out.answer))
                  ELSE Answer(q, Failed(500))
             ELSE Suspend([q EXCEPT !.wakes = @ + 1], "wake")

\* lines 52-62 and 76-79: post_wake has ended, however it ended
WakeDone ==
    /\ px.pc = "wake"
    /\ UNCHANGED <<computeVars, button>>
    /\ \E out \in Outcomes({[status |-> 202, body |-> "waking", json |-> TRUE],
                           [status |-> 503, body |-> "unavailable page", json |-> FALSE]}) :
         IF px.wait THEN Loop([px EXCEPT !.total_waited = 0])
         ELSE Answer(px, Waking)

\* lines 62-65: the sleep has ended and /health is asked
SleepDone ==
    /\ px.pc = "sleep"
    /\ UNCHANGED <<computeVars, button>>
    /\ Suspend([px EXCEPT !.total_waited = @ + PollInterval, !.polls = @ + 1], "health")

\* lines 65-70: /health has answered, or the call raised
HealthDone ==
    /\ px.pc = "health"
    /\ UNCHANGED <<computeVars, button>>
    /\ \E out \in Outcomes(HealthAnswers) :
         IF out.raised = "no" /\ out.answer.status = 200
         THEN Suspend([px EXCEPT !.reissues = @ + 1,
                                 !.healthyAt = IF @ = 0 THEN px.polls ELSE @], "refwd")
         ELSE Loop(px)

\* lines 67-70: the re-issued forward has ended; its answer is relayed, an
\* exception (of the call or of r3.json()) is passed over
RefwdDone ==
    /\ px.pc = "refwd"
    /\ UNCHANGED <<computeVars, button>>
    /\ \E out \in Outcomes(ApiAnswers) :
         LET q == [px EXCEPT !.reissue1 = IF px.reissues = 1 THEN out ELSE @]
         IN  IF out.raised = "no" /\ out.answer.json
             THEN Answer(q, Relay(out.answer.status, out.answer))
             ELSE Loop(q)

ProxyInit ==
    /\ px = IdleProxy
    /\ presp = NoPresp

ProxyUrls == { <<>>, << <<>> >>, <<U>> }

ProxyNext ==
    \/ \E configured \in BOOLEAN, url \in ProxyUrls, force \in BOOLEAN, wait \in BOOLEAN :
         ProxyGet(configured, url, force, wait)
    \/ FwdDone
    \/ WakeDone
    \/ SleepDone
    \/ HealthDone
    \/ RefwdDone

\* ======================================================= button classifier
\* The loops over soup.find_all("a", class_="btn") of extract_links_requests
\* (lines 142-166) and of extract_buttons_with_browser (lines 214-250), for
\* one anchor.  The text of an anchor is described by the markers it
\* contains; a text that contains "FSLv2" or "FSL Server" contains "FSL".
Markers == { "FSLv2", "FSL", "FSL Server", "10Gbps", "PixelServer", "Telegram" }

ButtonTexts ==
    { t \in SUBSET Markers :
        /\ "FSLv2" \in t => "FSL" \in t
        /\ "FSL Server" \in t => "FSL" \in t }

Hrefs == { "", "https://h.example/x" }

NoLabel == "none"

\* extract_links_requests, lines 144-166: the key of links that is assigned
ClassifyRequests(text, href) ==
    IF href = "" THEN NoLabel
    ELSE IF "FSLv2" \in text THEN "FSLv2"
    ELSE IF "FSL Server" \in text \/ ("FSL" \in text /\ "FSLv2" \notin text) THEN "FSL"
    ELSE IF "10Gbps" \in text THEN "10Gbps"
    ELSE IF "PixelServer" \in text THEN "PixelServer"
    ELSE IF "Telegram" \in text THEN "Telegram"
    ELSE NoLabel

\* extract_buttons_with_browser, lines 216-250: the key of links that is
\* assigned
ClassifyBrowser(text, href) ==
    IF href = "" THEN NoLabel
    ELSE IF "FSLv2" \in text THEN "FSLv2"
    ELSE IF "FSL Server" \in text THEN "FSL"
    ELSE IF "10Gbps" \in text THEN "10Gbps"
    ELSE IF "PixelServer" \in text THEN "PixelServer"
    ELSE IF "Telegram" \in text THEN "Telegram"
    ELSE NoLabel

Unseen == "unseen"

NoButton == [text |-> {}, href |-> "", http |-> Unseen, rendered |-> Unseen, onPage |-> FALSE]

ButtonInit == button = NoButton

\* the page holds this anchor
SeeButton(text, href) ==
    /\ ~button.onPage
    /\ button' = [NoButton EXCEPT !.text = text, !.href = href, !.onPage = TRUE]
    /\ UNCHANGED <<computeVars, proxyVars>>

\* the loop of extract_links_requests reaches the anchor
LinksLoop ==
    /\ button.onPage /\ button.http = Unseen
    /\ button' = [button EXCEPT !.http = ClassifyRequests(button.text, button.href)]
    /\ UNCHANGED <<computeVars, proxyVars>>

\* the loop of extract_buttons_with_browser reaches the anchor
BrowserLoop ==
    /\ button.onPage /\ button.rendered = Unseen
    /\ button' = [button EXCEPT !.rendered = ClassifyBrowser(button.text, button.href)]
    /\ UNCHANGED <<computeVars, proxyVars>>

ClassifyNext ==
    \/ \E text \in ButtonTexts, href \in Hrefs : SeeButton(text, href)
    \/ LinksLoop
    \/ BrowserLoop

vars == <<computeVars, proxyVars, button>>
Init == ComputeInit /\ ProxyInit /\ ButtonInit
ClassifySpec == Init /\ [][ClassifyNext]_vars
ProbeSpec == Init /\ [][ProbeNext]_vars
EngineSpec == Init /\ [][EngineNext]_vars
CacheSpec == Init /\ [][CacheNext]_vars
PageSpec == Init /\ [][PageNext]_vars
ProxySpec == Init /\ [][ProxyNext]_vars

\* Every call the proxy awaits has a timeout and the sleep ends: a suspended
\* request is resumed.
ProxyFairSpec == ProxySpec /\ WF_vars(ProxyNext)

\* ================================================================= claims
\* The call that arrives in this step, and whether a call is answered in it.
Arrives == calls' = calls + 1

Quiet == \A o \in Req : ~InFlight(req[o])

AnsweredAtOnce == Arrives /\ ~InFlight(req'[calls'])

Completes == AnsweredAtOnce \/ \E r \in Req : InFlight(req[r]) /\ ~InFlight(req'[r])

ArrivingUrl == IF InFlight(req'[calls']) THEN req'[calls'].url ELSE last'.url

ArrivingForce == IF InFlight(req'[calls']) THEN req'[calls'].force ELSE last'.force

\* the last answer is an entry returned by an extract call that ran alone
ReturnedAlone == last.endpoint = "hubcloud" /\ last.status = 200 /\ last.entry # <<>> /\ last.alone

FileHolds(f, url, entry) == f.state = "ok" /\ url \in DOMAIN f.data /\ <<f.data[url]>> = entry

\* C1: concurrent ensure_playwright_started calls that begin while started is
\* false create exactly one engine instance: at most one browser is ever
\* launched over the life of the process.
C1_SingleFlight == nBrowsers <= 1

\* C2 (as claimed): of two successive calls extract(u, forceRefresh=false),
\* the first having returned an entry, the second performs no network
\* activity, does not write the cache and returns the identical entry.
C2_Original ==
    [][ (Arrives /\ Quiet /\ ReturnedAlone /\ ~last.force
            /\ ArrivingUrl = last.url /\ ~ArrivingForce)
        => (AnsweredAtOnce /\ last'.status = 200 /\ last'.entry = last.entry
            /\ ~last'.net /\ last'.saved = "none" /\ file' = file) ]_vars

\* C2 (amended): the same, provided the first call's save, when it made one,
\* did not fail.
C2_CacheIdempotence ==
    [][ (Arrives /\ Quiet /\ ReturnedAlone /\ ~last.force
            /\ last.saved \in {"ok", "none"}
            /\ ArrivingUrl = last.url /\ ~ArrivingForce)
        => (AnsweredAtOnce /\ last'.status = 200 /\ last'.entry = last.entry
            /\ ~last'.net /\ last'.saved = "none" /\ file' = file) ]_vars

\* the second call was answered from the cache with an entry that the first
\* call stored
C2_Witness ==
    /\ calls = 2
    /\ last.endpoint = "hubcloud" /\ last.status = 200 /\ last.alone
    /\ ~last.force /\ ~last.net /\ last.saved = "none"
    /\ last.entry # <<OldEntry>>

\* C3 (as claimed): extract(u, forceRefresh=true) always issues the probes
\* again and, when it returns its entry, the store holds that entry for u.
C3_Original ==
    [][ (Completes /\ last'.force /\ last'.status = 200)
        => (last'.net /\ last'.saved # "none"
            /\ FileHolds(file', last'.url, last'.entry)) ]_vars

\* C3 (amended): it always issues the probes again and saves; the store holds
\* the new entry when the save did not fail.
C3_ForcedRefresh ==
    [][ (Completes /\ last'.force /\ last'.status = 200)
        => (last'.net /\ last'.saved # "none"
            /\ (last'.saved = "ok" => FileHolds(file', last'.url, last'.entry))) ]_vars

\* a forced call for u has replaced what the store held for u
C3_Witness ==
    /\ last.endpoint = "hubcloud" /\ last.status = 200 /\ last.force /\ last.net
    /\ last.saved = "ok" /\ last.url = U
    /\ FileHolds(file, U, last.entry) /\ last.entry # <<OldEntry>>

\* C4: whichever probes fail, an extract call that issued them still
\* assembles, caches and returns an entry.
C4_ProbeSoftFailure ==
    (last.endpoint = "hubcloud" /\ last.net)
        => (last.status = 200 /\ last.entry # <<>> /\ last.saved # "none")

\* C5: a request whose url is missing, empty or empty once stripped is
\* answered 400, in the step it arrives, with no network request, no cache
\* access and no engine start.
C5_InvalidInput ==
    [][ (AnsweredAtOnce /\ last'.endpoint = "hubcloud" /\ last'.url = <<>>)
        => (last'.status = 400 /\ ~last'.net
            /\ task' = task /\ file' = file /\ engineVars' = engineVars) ]_vars

\* C6: with wait=false, a fast forward that ends in a connection failure or
\* in any timeout is answered 202 'waking' with Retry-After, without a poll.
C6_NotReady ==
    (px.pc = "done" /\ ~px.wait /\ px.first.raised \in HttpxErrors)
        => (presp = Waking /\ px.polls = 0)

\* C7: with wait=true, when /health first answers 200 at the N-th poll, N
\* intervals being less than the maximum wait, and the re-issued extraction
\* succeeds, the answer is that extraction's status and body.
HealthyInTime ==
    /\ px.pc = "done" /\ px.wait
    /\ px.healthyAt > 0 /\ px.healthyAt * PollInterval < MAX_BLOCK_WAIT
    /\ px.reissue1.raised = "no" /\ px.reissue1.answer.status = 200 /\ px.reissue1.answer.json

C7_WaitRelay ==
    HealthyInTime
        => (presp.kind = "relay" /\ presp.status = px.reissue1.answer.status
            /\ presp.body = px.reissue1.answer.body)

\* the third poll was the first healthy one
C7_Witness == HealthyInTime /\ px.healthyAt = 3 /\ presp.kind = "relay"

\* C8: once the checks of the url and of the base URL are passed, the answer
\* is a relayed successful answer or the synthesized 202 'waking'.
C8_Normalized ==
    (px.pc = "done" /\ px.first # NoOutcome)
        => (presp = Waking \/ (presp.kind = "relay" /\ presp.status \in 200..299))

\* C9: /health answers 200 'ready' exactly when started is true, and then a
\* browser has been launched and stored; else it answers 503 'sleeping'.
C9_Health ==
    [][ (last'.endpoint = "health" /\ last' # last)
        => \/ /\ last'.status = 200 /\ last'.body = "ready"
              /\ started /\ browser # 0 /\ playwright # 0 /\ nBrowsers >= 1
           \/ /\ last'.status = 503 /\ last'.body = "sleeping"
              /\ ~started ]_vars

\* /health has answered 'sleeping' while a start was in progress
C9_Witness ==
    /\ last.endpoint = "health" /\ last.status = 503
    /\ \E t \in Task : task[t].pc = "launch"

\* C10: /wake answers 202 'waking' in the step it is called, whatever the
\* engine's state and without changing it; the task of a wake that found the
\* engine started ends at the flag check and starts nothing.
C10_Wake ==
    /\ [](\A t \in Task : task[t].bornStarted => task[t].pc \in {"check", "done"})
    /\ [][ (last'.endpoint = "wake" /\ last' # last)
           => (last'.status = 202 /\ last'.body = "waking"
               /\ engineVars' = engineVars) ]_vars

\* /wake has answered and the start it triggered is still in progress
C10_Witness ==
    /\ last.endpoint = "wake" /\ last.status = 202 /\ ~started
    /\ \E t \in Task : task[t].pc = "launch"

\* C11: when the browser fallback of an extract call cannot start the engine,
\* the call returns no entry and the endpoint answers 202 'waking' and
\* starts the engine in the background if the engine was not started at that
\* moment, 500 if it was.
C11_EngineUnavailable ==
    [][ (Completes /\ last'.endpoint = "hubcloud" /\ last'.startFailed)
        => /\ last'.entry = <<>>
           /\ IF started THEN last'.status = 500 /\ task' = task
              ELSE last'.status = 202 /\ task' # task ]_vars

\* the save_cache call made in this step, and the request that made it
Saves == Len(written') = Len(written) + 1

Saved == written'[Len(written')]

Saver == CHOOSE r \in Req : InFlight(req[r]) /\ ~InFlight(req'[r])

\* what the store holds for u differs from the entry that write i stored
\* only if a later forced call for u has saved
KeptSince(i) ==
    LET u == written[i].url
        cache == LoadCache(file)
    IN  /\ u \in DOMAIN cache
        /\ cache[u] # written[i].entry
              => \E j \in (i + 1)..Len(written) : written[j].url = u /\ written[j].force

\* C12 (as claimed): once an entry for u is written to the store, in every
\* later state the store holds an entry for u, changed only by a forced
\* extract of u completed in between, under any interleaving of calls.
C12_Original ==
    \A i \in 1..Len(written) : written[i].how = "ok" => KeptSince(i)

\* C12 (amended): the same, provided the calls that save afterwards do not
\* overlap another call and their saves do not fail midway.
C12_EntryImmutability ==
    \A i \in 1..Len(written) :
        ( /\ written[i].how = "ok"
          /\ \A j \in (i + 1)..Len(written) : written[j].alone /\ written[j].how # "partial" )
        => KeptSince(i)

\* a forced call that ran alone has replaced the entry an earlier call stored
C12_Witness ==
    /\ Len(written) = 2
    /\ written[1].how = "ok" /\ written[2].how = "ok" /\ written[2].alone
    /\ written[2].url = written[1].url /\ written[2].force
    /\ written[2].entry # written[1].entry
    /\ FileHolds(file, written[2].url, <<written[2].entry>>)

\* C13: a missing or unparsable store is loaded as an empty cache and the
\* call goes on to the probes; a failing save is swallowed; in both cases the
\* call returns the entry it assembled for the requested URL.
C13_CacheFailuresAbsorbed ==
    [][ /\ (Arrives /\ file.state # "ok")
           => /\ InFlight(req'[calls']) /\ req'[calls'].pc = "probes"
              /\ req'[calls'].cache = EmptyMap
        /\ Saves
           => /\ last'.status = 200 /\ last'.url = Saved.url
              /\ last'.entry = <<Saved.entry>> /\ last'.saved = Saved.how
              /\ Saved.entry.meta.url = Saved.url ]_vars

\* a call has returned its entry after loading a store that the failed save
\* of an earlier call left unparsable, its own save failing too
C13_Witness ==
    /\ Len(written) = 2
    /\ written[1].how = "partial" /\ written[2].how = "unwritable" /\ written[2].alone
    /\ last.status = 200 /\ last.entry = <<written[2].entry>>

\* C14: a save stores the cache its call loaded at its start plus the call's
\* own entry, whatever the store holds by then: of two overlapping calls the
\* later save wins and the entry of the earlier saver is lost.
C14_LaterSaveWins ==
    [][ (Saves /\ Saved.how = "ok")
        => /\ file'.state = "ok"
           /\ file'.data = Put(req[Saver].cache, Saved.url, Saved.entry) ]_vars

\* both calls have returned an entry and saved, and the store lacks the
\* entry of the earlier saver
C14_Witness ==
    /\ Quiet /\ Len(written) = 2
    /\ written[1].how = "ok" /\ written[2].how = "ok"
    /\ written[1].url # written[2].url
    /\ file.state = "ok" /\ written[1].url \notin DOMAIN file.data
    /\ FileHolds(file, written[2].url, <<written[2].entry>>)

\* C15: with wait=true, after the first healthy poll the proxy polls /health
\* no more, re-issues the extraction once, and answers with the relay of the
\* re-issued request's result, never with the synthesized 202.
C15_PollProtocol ==
    px.healthyAt > 0
        => /\ px.polls = px.healthyAt
           /\ px.reissues = 1
           /\ px.pc = "done" => presp.kind = "relay"

\* C16: a request with wait=true terminates; one interval is slept before
\* each poll, there are at most ceil(maximum wait / interval) polls, and when
\* the accumulated wait reaches the maximum with no healthy poll the answer
\* is the 202 'waking' with Retry-After of the wait=false case.
MaxPolls == (MAX_BLOCK_WAIT + PollInterval - 1) \div PollInterval

C16_BoundedWait ==
    /\ [](/\ px.polls <= MaxPolls
          /\ px.total_waited = px.polls * PollInterval
          /\ px.pc = "health" => px.total_waited - PollInterval < MAX_BLOCK_WAIT
          /\ (px.pc = "done" /\ px.healthyAt = 0 /\ px.total_waited >= MAX_BLOCK_WAIT)
                => (presp = Waking /\ px.polls = MaxPolls))
    /\ [](px.pc \in {"fwd", "wake", "sleep", "health", "refwd"} => <>(px.pc = "done"))

\* every poll failed or answered unhealthy and the wait ran out
C16_Witness ==
    /\ px.pc = "done" /\ px.wait /\ px.healthyAt = 0
    /\ px.polls = MaxPolls /\ px.total_waited >= MAX_BLOCK_WAIT
    /\ presp = Waking

\* C17: the proxy posts the wake exactly once, before any health poll and
\* before any 'waking' answer, if and only if its first forward did not
\* return status 200.
C17_WakeOrdering ==
    (px.first # NoOutcome)
        => /\ px.wakes <= 1
           /\ px.wakes = 1 <=> ~(px.first.raised = "no" /\ px.first.answer.status = 200)
           /\ px.polls > 0 => px.wakes = 1
           /\ presp = Waking => px.wakes = 1

\* C18: an extract call starts the engine only in the fallback, that is when
\* the link probe classified no links; the resolution step starts nothing
\* and navigates only when the flag is already true and the HTTP resolution
\* found nothing.
C18_StartConfined ==
    /\ [](\A r \in Req :
            /\ req[r].pc \in {"ens_rt", "ens_launch"} => req[r].links = <<>>
            /\ req[r].pc = "res_page" => started)
    /\ [][ /\ nBrowsers' # nBrowsers
              => \/ \E r \in Req : req[r].pc = "ens_launch" /\ req[r].links = <<>>
                 \/ \E t \in Task : task[t].pc = "launch"
           /\ \A r \in Req :
                /\ (req[r].pc \in {"res_req", "res_page"} /\ req'[r] # req[r])
                      => /\ engineVars' = engineVars
                         /\ req'[r].pc \notin {"ens_rt", "ens_launch", "fb_page"}
                /\ (req'[r].pc = "res_page" /\ req[r].pc # "res_page")
                      => (req[r].pc = "res_req" /\ started) ]_vars

\* a call resolves a link by navigation with the engine that was started
\* before, and only one engine has been started
C18_Witness ==
    /\ started /\ nBrowsers = 1
    /\ \E r \in Req : req[r].pc = "res_page" /\ NeedsResolving(req[r].links[req[r].idx].href)

\* C19: every page an extraction request opens is closed on every exit path
\* of the visit that opened it: no request is ever suspended outside a visit,
\* and none ends, holding an open page.
C19_PageRelease ==
    /\ \A r \in Req : req[r].pages = 0
    /\ last.endpoint = "hubcloud" => last.pages = 0
    /\ \A out \in PageOutcomes : PagesOpened(out) = PagesClosed(out)

\* a call has ended that opened a page in its fallback, which gave it a
\* link, and a page in the resolution of that link, which found nothing
C19_Witness ==
    /\ calls = 1 /\ started
    /\ last.endpoint = "hubcloud" /\ last.status = 200 /\ last.pages = 0
    /\ last.entry[1].links = <<TelegramLink>> /\ last.entry[1].resolved = <<>>
    /\ PagesOpened("10gbps_nav") = 2

\* C20: the browser-fallback classifier gives every anchor the label the
\* plain-HTTP classifier gives it, both with the priority FSLv2, FSL, 10Gbps,
\* PixelServer, Telegram: a text with FSLv2 is labeled FSLv2, a text with FSL
\* and without FSLv2 is labeled FSL, on both paths.
FirstMatch(text) ==
    IF "FSLv2" \in text THEN "FSLv2"
    ELSE IF "FSL" \in text THEN "FSL"
    ELSE IF "10Gbps" \in text THEN "10Gbps"
    ELSE IF "PixelServer" \in text THEN "PixelServer"
    ELSE IF "Telegram" \in text THEN "Telegram"
    ELSE NoLabel

C20_SameClassification ==
    (button.http # Unseen /\ button.rendered # Unseen)
        => /\ button.rendered = button.http
           /\ button.href # "" => button.rendered = FirstMatch(button.text)

\* C21: in every reachable state started = true implies that the runtime
\* handle and the browser handle are set, also for the request that is about
\* to open its fallback page and after failed start attempts; started never
\* goes back to false, so /health, once it has answered 'ready', never
\* answers 'sleeping' again.
C21_EngineHandles ==
    /\ [](/\ started => (playwright # 0 /\ browser # 0)
          /\ \A r \in Req : req[r].pc = "fb_page" => (started /\ browser # 0))
    /\ [][ /\ started => (started' /\ playwright' # 0 /\ browser' # 0)
           /\ (started /\ last'.endpoint = "health" /\ last' # last)
                 => last'.status = 200 ]_vars

\* a start attempt has failed, another has stored the engine, and /health
\* has answered 'ready'
C21_Witness ==
    /\ started /\ playwright # 0 /\ browser # 0
    /\ \E t \in Task : task[t].pc = "failed"
    /\ last.endpoint = "health" /\ last.status = 200

====
